---- MODULE Spec2Model ----
(***************************************************************************)
(* Model of DiscordRPC/presence.py: the RPC session (connect over ten      *)
(* candidate endpoints, handshake, set_activity, close) and its two        *)
(* transports, DiscordWindows (pipe file) and DiscordUnix (domain socket). *)
(*                                                                         *)
(* One caller drives one session.  The peer and the operating system are   *)
(* the environment: which candidates exist or open, which write or read    *)
(* fails, and which reply frame the peer sends are drawn with \E.          *)
(***************************************************************************)
EXTENDS Integers, Sequences, FiniteSets, TLC

VARIABLES
    platform,    \* sys.platform, as Set_ID tests it: "win32" or "unix"
    phase,       \* position of the construction: new, connecting, handshaking, ready, failed
    i,           \* loop variable of _connect
    tried,       \* candidate indices the loop of _connect has tried, in order
    opened,      \* candidate indices whose open/connect succeeded, in order
    handle,      \* self._f / self._sock: none, unconnected, open, closed
    closeCalls,  \* number of executions of _close
    releases,    \* number of executions of _close that released an open handle
    wire,        \* every write the transport accepted, in order
    rcvd,        \* every reply frame read from the transport, in order
    get_output,  \* self.get_output
    err,         \* the exception the last operation raised to the caller, or NoError
    lastOp,      \* the last operation the caller ran
    args,        \* the arguments of the last set_activity
    io,          \* the transport calls of the last operation, in order
    calls,       \* number of set_activity calls so far
    inScope,     \* the caller is inside a with-block over the session
    ret,         \* what the last operation returned to the caller
    exc_info,    \* the exception __exit__ was passed (its *_ arguments), NoError if none
    pending      \* the replies the peer has sent that no read has consumed yet,
                 \* each as the number of the command it answers

\* the state of the session
svars == <<platform, phase, i, tried, opened, handle, closeCalls, releases, wire,
           rcvd, get_output, err, lastOp, args, io, calls, inScope, ret, exc_info,
           pending>>

\* set_activity's construction of the activity, applied to one argument list
VARIABLES
    kwargs,      \* the keyword arguments of the call
    act          \* the activity object built from them, or the error raised

avars == <<kwargs, act>>

\* send, recv and _recv_exactly over the bytes of the transport
VARIABLES
    msg,            \* the (op, data) handed to send
    sent,           \* the transport writes of send, each a sequence of bytes
    src,            \* the bytes the peer sends, in order
    eof,            \* the peer closes its end once src is sent
    stream,         \* the bytes of src not yet consumed by a read
    fpc,            \* where the caller is: "idle", "sent", "header", "payload",
                    \* "raw" (a direct _recv_exactly), "done", "raised"
    size,           \* _recv_exactly's parameter
    buf,            \* _recv_exactly's local
    size_remaining, \* _recv_exactly's local
    req,            \* the size passed to the last _recv
    empties,        \* how many _recv calls of the running loop returned b""
    partial,        \* some _recv returned fewer bytes than it was asked for
    header,         \* recv's (op, length)
    out             \* the value returned to the caller

fvars == <<msg, sent, src, eof, stream, fpc, size, buf, size_remaining, req,
           empties, partial, header, out>>

\* two execution contexts calling set_activity on one session
VARIABLES
    mutex,       \* the callers serialize their calls through a lock
    lock,        \* the context that holds the lock, 0 when it is free
    tpc,         \* where each context is inside set_activity
    tcall,       \* the number of each context's current or last call
    lastWrite,   \* the last write the transport took: its kind and its caller
    peerOk,      \* what the peer received so far is a sequence of whole frames
    inq,         \* the parts of the peer's replies not yet read, in order
    rd,          \* the parts each context read in its current or last call
    crossed,     \* a header was written directly after another context's header
    misread      \* a context read the whole reply to another context's command

cvars == <<mutex, lock, tpc, tcall, lastWrite, peerOk, inq, rd, crossed, misread>>

\* the state of the harnesses further down
xvars == <<avars, fvars, cvars>>

vars == <<svars, xvars>>

---------------------------------------------------------------------------
(* Program constants *)

OP_HANDSHAKE == 0
OP_FRAME == 1
OP_CLOSE == 2
OP_PING == 3
OP_PONG == 4

OpCodes == {OP_HANDSHAKE, OP_FRAME, OP_CLOSE, OP_PING, OP_PONG}

\* range(10) in both _connect loops
NumCandidates == 10

\* the threshold of len(large_text) <= 3 and len(small_text) <= 3
MinTextLen == 3

(* Bounds of the model *)

\* set_activity calls per session
MaxCalls == 2

\* executions of close() per session (explicit close and __exit__ together)
MaxCloses == 2

\* how many empty reads of one _recv_exactly loop are followed
MaxEmptyReads == 3

\* the longest stream and the largest size a direct _recv_exactly is given
MaxStream == 6
MaxSize == 6

\* a read that returns less than everything it could returns at most this
\* many bytes
MaxChunk == 6

\* how many set_activity calls each of the concurrent contexts makes
MaxConcCalls == 2

---------------------------------------------------------------------------
(* Python values *)

None == [t |-> "None"]
Str(s) == [t |-> "str", v |-> s]
\* a number or an already serialisable value, carried as its JSON text
Lit(s) == [t |-> "lit", v |-> s]

\* str(x) for the values above
PyStr(x) == IF x.t = "None" THEN "None" ELSE x.v

NoError == [type |-> "none", arg |-> ""]
Raised(type, arg) == [type |-> type, arg |-> arg]

\* the environment of one session
ClientId == "42"
PidText == "4242"
NonceText == "11/05/26 - 07:26:32"

---------------------------------------------------------------------------
(* json.dumps(data, separators=(',', ':')) for the shapes send() is given. *)
(* A dict is a sequence of <<key, JSON text>> pairs in insertion order.    *)

JsonStr(s) == "\"" \o s \o "\""

JsonVal(x) == IF x.t = "None" THEN "null"
              ELSE IF x.t = "str" THEN JsonStr(x.v)
              ELSE x.v

RECURSIVE JsonMembers(_)
JsonMembers(pairs) ==
    IF pairs = <<>> THEN ""
    ELSE JsonStr(pairs[1][1]) \o ":" \o pairs[1][2]
         \o (IF Len(pairs) = 1 THEN "" ELSE "," \o JsonMembers(Tail(pairs)))

JsonObj(pairs) == "{" \o JsonMembers(pairs) \o "}"

\* dict.pop(key, None)
Pop(pairs, key) == SelectSeq(pairs, LAMBDA kv : kv[1] # key)

HandshakeData == <<  <<"v", "1">>, <<"client_id", JsonStr(ClientId)>>  >>

\* mutant: the handshake goes out as an ordinary FRAME
HandshakeOpFrame == OP_FRAME

\* the op _do_handshake passes to send_recv
HandshakeOp == OP_HANDSHAKE

CloseData == << >>

---------------------------------------------------------------------------
(* set_activity: validation and the command it builds *)

\* mutant: the threshold is exclusive, a text of 3 characters passes
TooShortBelow(text) == Len(text.v) < MinTextLen

\* len(text) <= 3; len(None) is a TypeError
TooShort(text) == Len(text.v) <= MinTextLen

\* x == None or x == '' or x == 'null'
Absent(x) == x = None \/ x = Str("") \/ x = Str("null")

Assets(p) ==
    LET full == << <<"small_text", JsonVal(p.small_text)>>,
                   <<"large_text", JsonVal(p.large_text)>>,
                   <<"small_image", JsonStr(PyStr(p.small_image))>>,
                   <<"large_image", JsonStr(PyStr(p.large_image))>> >>
        a1 == IF Absent(p.small_text) THEN Pop(full, "small_text") ELSE full
        a2 == IF Absent(p.large_text) THEN Pop(a1, "large_text") ELSE a1
    IN  a2

Activity(p) ==
    LET full == << <<"state", JsonVal(p.state)>>,
                   <<"details", JsonVal(p.details)>>,
                   <<"timestamps", JsonObj(<< <<"start", JsonVal(p.timestamp)>> >>)>>,
                   <<"assets", JsonObj(Assets(p))>>,
                   <<"buttons", JsonVal(p.buttons)>> >>
        a1 == IF Absent(p.state) THEN Pop(full, "state") ELSE full
        a2 == IF Absent(p.details) THEN Pop(a1, "details") ELSE a1
        a3 == IF p.timestamp = None THEN Pop(a2, "timestamps") ELSE a2
        a4 == IF p.buttons = None THEN Pop(a3, "buttons") ELSE a3
    IN  a4

SetActivityData(p) ==
    << <<"cmd", JsonStr("SET_ACTIVITY")>>,
       <<"args", JsonObj(<< <<"pid", PidText>>,
                            <<"activity", JsonObj(Activity(p))>> >>)>>,
       <<"nonce", JsonStr(NonceText)>> >>

\* the defaults of set_activity's parameters
Defaults == [state |-> None, details |-> None, timestamp |-> None,
             small_text |-> Str("null"), large_text |-> Str("null"),
             small_image |-> Str("null"), large_image |-> Str("null"),
             buttons |-> None]

\* the argument lists the caller draws from
ActivityInputs ==
    { Defaults,
      [Defaults EXCEPT !.details = Str("hi"), !.large_text = Str("Valid!"),
                       !.small_image = None, !.large_image = None],
      [Defaults EXCEPT !.small_text = Str("ab")],
      [Defaults EXCEPT !.small_text = Str("abc"), !.large_text = Str("Valid!")],
      [Defaults EXCEPT !.large_text = Str("abc"), !.state = Str("playing")],
      [Defaults EXCEPT !.large_text = Str("")] }

NoArgs == [state |-> None]

\* the two checks that open set_activity, large_text first
Validate(p) ==
    IF p.large_text = None THEN Raised("TypeError", "len")
    ELSE IF TooShort(p.large_text) THEN Raised("Error", "large text")
    ELSE IF p.small_text = None THEN Raised("TypeError", "len")
    ELSE IF TooShort(p.small_text) THEN Raised("Error", "small text")
    ELSE NoError

---------------------------------------------------------------------------
(* Transport: _write, _recv, _close of DiscordWindows and DiscordUnix *)

\* what a write or read on a handle that is not open raises: file.write on a
\* closed file is a ValueError, sendall/recv on a closed socket an OSError
ClosedError(plat) ==
    IF plat = "win32" THEN Raised("ValueError", "closed file")
    ELSE Raised("OSError", "EBADF")

\* mutant: a write on a closed handle goes through
WriteRaisesOnFaultOnly(h, fault) == fault

\* _write raises when the handle is not open or when the operating system
\* fails the write (fault, drawn by the environment). A fault need not end
\* the connection: a socket under a default timeout raises and stays usable.
WriteRaises(h, fault) == h # "open" \/ fault

WriteError(h, plat) ==
    IF h # "open" THEN ClosedError(plat) ELSE Raised("OSError", "timed out")

\* _recv raises in the same two cases
RecvRaises(h, fault) == h # "open" \/ fault

RecvError(h, plat) ==
    IF h # "open" THEN ClosedError(plat) ELSE Raised("OSError", "timed out")

\* mutant: a close that releases the handle again on every execution
CloseReleasesAgain(h) == TRUE

\* _close: file.close() and socket.close() release an open handle and do
\* nothing on a closed one; this is whether this execution releases
CloseReleases(h) == h \in {"open", "unconnected"}

---------------------------------------------------------------------------
(* RPC.send: two writes, header then payload *)

\* mutant: the header declares a length of zero
HeaderOfNoLength(op, text) == [kind |-> "header", op |-> op, length |-> 0]

\* struct.pack("<II", op, len(data_bytes)); the payloads modelled are ASCII,
\* so the UTF-8 byte length is the number of characters
HeaderOf(op, text) == [kind |-> "header", op |-> op, length |-> Len(text)]
PayloadOf(text) == [kind |-> "payload", bytes |-> text]

\* wf is the write the operating system fails: "none", "header" or "payload"
WriteFaults == {"none", "header", "payload"}

Send(w, h, plat, data, op, wf) ==
    LET text == JsonObj(data) IN
    IF WriteRaises(h, wf = "header")
    THEN [wire |-> w, err |-> WriteError(h, plat), io |-> <<"write_header!">>]
    ELSE IF WriteRaises(h, wf = "payload")
    THEN [wire |-> Append(w, HeaderOf(op, text)), err |-> WriteError(h, plat),
          io |-> <<"write_header", "write_payload!">>]
    ELSE [wire |-> w \o <<HeaderOf(op, text), PayloadOf(text)>>, err |-> NoError,
          io |-> <<"write_header", "write_payload">>]

(* RPC.recv and the two reads of set_activity read a header, then the    *)
(* payload: io records "read_header", "read_payload", or "read!" when the  *)
(* operating system fails the read.                                        *)

(* RPC.close: send CLOSE in a try, _close in its finally *)

\* mutant: no try/finally, _close is skipped when the send raises
CloseSkippedOnRaise(sendRaised) == ~sendRaised

\* whether _close runs, given whether the send raised
CloseRunsFinally(sendRaised) == TRUE

CloseBody(w, h, plat, wf) ==
    LET s == Send(w, h, plat, CloseData, OP_CLOSE, wf)
        runs == CloseRunsFinally(s.err # NoError)
    IN  [wire |-> s.wire,
         err |-> s.err,
         io |-> IF runs THEN Append(s.io, "_close") ELSE s.io,
         handle |-> IF runs THEN "closed" ELSE h,
         closed |-> IF runs THEN 1 ELSE 0,
         released |-> IF runs /\ CloseReleases(h) THEN 1 ELSE 0]

---------------------------------------------------------------------------
(* RPC._do_handshake *)

HasKey(d, k) == k \in DOMAIN d

\* mutant: the test of evt is missing
HandshakeCheckNoEvt(op, d) ==
    IF op # OP_FRAME THEN "reject"
    ELSE IF ~HasKey(d, "cmd") THEN "cmd"
    ELSE IF d["cmd"] # "DISPATCH" THEN "reject"
    ELSE "accept"

\* ret_op == OP_FRAME and ret_data['cmd'] == 'DISPATCH' and ret_data['evt'] == 'READY',
\* evaluated left to right: "accept", "reject", or the key ("cmd", "evt") whose
\* absence raises KeyError
HandshakeCheck(op, d) ==
    IF op # OP_FRAME THEN "reject"
    ELSE IF ~HasKey(d, "cmd") THEN "cmd"
    ELSE IF d["cmd"] # "DISPATCH" THEN "reject"
    ELSE IF ~HasKey(d, "evt") THEN "evt"
    ELSE IF d["evt"] # "READY" THEN "reject"
    ELSE "accept"

\* mutant: close() on every refused reply
ClosesOnAnyReject(op) == TRUE

\* if ret_op == OP_CLOSE: self.close()
ClosesOnReject(op) == op = OP_CLOSE

\* the reply payloads the peer is drawn from; "None" stands for a JSON null
ReplyData ==
    { [cmd |-> "DISPATCH", evt |-> "READY"],
      [cmd |-> "DISPATCH", evt |-> "ERROR"],
      [cmd |-> "SET_ACTIVITY", evt |-> "READY"],
      [cmd |-> "SET_ACTIVITY", evt |-> "None"],
      [cmd |-> "SET_ACTIVITY", evt |-> "ERROR"],
      [evt |-> "READY"],
      [cmd |-> "DISPATCH"],
      [code |-> "4000", message |-> "Invalid Client ID"] }

HandshakeReplies == [op : OpCodes, data : ReplyData]

ActivityReplies ==
    [op : {OP_FRAME},
     data : { [cmd |-> "SET_ACTIVITY", evt |-> "None"],
              [cmd |-> "SET_ACTIVITY", evt |-> "ERROR"],
              [code |-> "4000", message |-> "Invalid Client ID"] }]

---------------------------------------------------------------------------
Unset == [t |-> "unset"]

\* no call of the activity harness under way
ActIdle == kwargs = Unset /\ act = Unset

\* no send or recv of the byte harness under way
FrameIdle ==
    /\ msg = Unset /\ sent = <<>> /\ src = <<>> /\ eof = FALSE /\ stream = <<>>
    /\ fpc = "idle" /\ size = 0 /\ buf = <<>> /\ size_remaining = 0 /\ req = 0
    /\ empties = 0 /\ partial = FALSE /\ header = Unset /\ out = Unset

Contexts == {1, 2}

\* no context has called yet
ConcIdle ==
    /\ mutex = FALSE /\ lock = 0
    /\ tpc = [t \in Contexts |-> "idle"]
    /\ tcall = [t \in Contexts |-> 0]
    /\ lastWrite = Unset
    /\ peerOk = TRUE
    /\ inq = <<>>
    /\ rd = [t \in Contexts |-> <<>>]
    /\ crossed = FALSE /\ misread = FALSE

NoHarness == ActIdle /\ FrameIdle /\ ConcIdle

\* no session constructed yet
NoSession ==
    /\ platform \in {"win32", "unix"}
    /\ phase = "new"
    /\ i = 0
    /\ tried = <<>>
    /\ opened = <<>>
    /\ handle = "none"
    /\ closeCalls = 0
    /\ releases = 0
    /\ wire = <<>>
    /\ rcvd = <<>>
    /\ get_output = Unset
    /\ err = NoError
    /\ lastOp = "none"
    /\ args = NoArgs
    /\ io = <<>>
    /\ calls = 0
    /\ inScope = FALSE
    /\ ret = None
    /\ exc_info = NoError
    /\ pending = <<>>

Init == NoSession /\ NoHarness

(* RPC.Set_ID up to the loop of _connect: the platform's class is chosen;  *)
(* DiscordUnix._connect creates its socket before the loop.                *)
Set_ID ==
    /\ phase = "new"
    /\ phase' = "connecting"
    /\ handle' = IF platform = "win32" THEN "none" ELSE "unconnected"
    /\ i' = 0
    /\ lastOp' = "Set_ID"
    /\ UNCHANGED <<platform, tried, opened, closeCalls, releases, wire, rcvd,
                   get_output, err, args, io, calls, inScope, ret, exc_info, pending>>
    /\ UNCHANGED xvars

(* One iteration of the loop of _connect.  The candidate's outcome is the  *)
(* environment's: "missing" (DiscordUnix: os.path.exists is false, no      *)
(* connect), "oserror" (open/connect raises OSError, logged), "ok".        *)
CandidateOutcomes(plat) ==
    IF plat = "win32" THEN {"oserror", "ok"} ELSE {"missing", "oserror", "ok"}

\* mutant: the break is missing, the loop goes on after a success
LoopContinuesNoBreak(res) == TRUE

\* the loop goes on to the next candidate unless the try's else: break runs
LoopContinues(res) == res # "ok"

ConnectStep ==
    /\ phase = "connecting"
    /\ i < NumCandidates
    /\ \E res \in CandidateOutcomes(platform) :
        /\ tried' = Append(tried, i)
        /\ IF res = "ok"
           THEN opened' = Append(opened, i) /\ handle' = "open"
           ELSE UNCHANGED <<opened, handle>>
        /\ IF LoopContinues(res)
           THEN i' = i + 1 /\ phase' = phase
           ELSE i' = i /\ phase' = "handshaking"
    /\ UNCHANGED <<platform, closeCalls, releases, wire, rcvd, get_output, err,
                   lastOp, args, io, calls, inScope, ret, exc_info, pending>>
    /\ UNCHANGED xvars

\* mutant: the for has no else, _connect returns without a transport
ExhaustedFallsThrough == FALSE

\* what _connect does when its loop ends without a break: the for's else
ExhaustedRaises == TRUE

(* The else of the for: all candidates tried, none broke out of the loop. *)
ConnectExhausted ==
    /\ phase = "connecting"
    /\ i >= NumCandidates
    /\ IF ExhaustedRaises
       THEN phase' = "failed" /\ err' = Raised("DiscordNotOpened", "")
       ELSE phase' = "handshaking" /\ err' = err
    /\ UNCHANGED <<platform, i, tried, opened, handle, closeCalls, releases, wire,
                   rcvd, get_output, lastOp, args, io, calls, inScope, ret, exc_info,
                   pending>>
    /\ UNCHANGED xvars

(* _do_handshake and the rest of __init__.  wf1 is the write fault of the  *)
(* handshake's send, rf the read fault and r the reply of its recv, wf2    *)
(* the write fault of the CLOSE frame when the reply's op is CLOSE.        *)
Handshake ==
    /\ phase = "handshaking"
    /\ \E wf1 \in WriteFaults :
        LET s == Send(wire, handle, platform, HandshakeData, HandshakeOp, wf1) IN
        IF s.err # NoError
        THEN /\ phase' = "failed" /\ err' = s.err /\ wire' = s.wire /\ io' = s.io
             /\ UNCHANGED <<rcvd, get_output, handle, closeCalls, releases>>
        ELSE \E rf \in BOOLEAN :
          IF RecvRaises(handle, rf)
          THEN /\ phase' = "failed" /\ err' = RecvError(handle, platform)
               /\ wire' = s.wire /\ io' = s.io \o <<"read!">>
               /\ UNCHANGED <<rcvd, get_output, handle, closeCalls, releases>>
          ELSE \E r \in HandshakeReplies :
            LET rio == s.io \o <<"read_header", "read_payload">>
                chk == HandshakeCheck(r.op, r.data)
            IN
            /\ rcvd' = Append(rcvd, r)
            /\ IF chk = "accept"
               THEN /\ phase' = "ready" /\ err' = NoError /\ wire' = s.wire
                    /\ io' = rio
                    /\ get_output' = None
                    /\ UNCHANGED <<handle, closeCalls, releases>>
               ELSE IF chk \in {"cmd", "evt"}
               THEN /\ phase' = "failed" /\ err' = Raised("KeyError", chk)
                    /\ wire' = s.wire /\ io' = rio
                    /\ UNCHANGED <<get_output, handle, closeCalls, releases>>
               ELSE IF ClosesOnReject(r.op)
               THEN \E wf2 \in WriteFaults :
                    LET c == CloseBody(s.wire, handle, platform, wf2) IN
                    /\ phase' = "failed"
                    /\ err' = IF c.err # NoError THEN c.err
                              ELSE Raised("RuntimeError", r.data)
                    /\ wire' = c.wire
                    /\ io' = rio \o c.io
                    /\ handle' = c.handle
                    /\ closeCalls' = closeCalls + c.closed
                    /\ releases' = releases + c.released
                    /\ UNCHANGED get_output
               ELSE /\ phase' = "failed" /\ err' = Raised("RuntimeError", r.data)
                    /\ wire' = s.wire /\ io' = rio
                    /\ UNCHANGED <<get_output, handle, closeCalls, releases>>
    /\ UNCHANGED <<platform, i, tried, opened, lastOp, args, calls, inScope, ret,
                   exc_info, pending>>
    /\ UNCHANGED xvars

\* mutant: set_activity closes the session before raising ActivityError
ClosesAfterActivityError == TRUE

\* what set_activity does with the transport when the reply's evt is "ERROR":
\* nothing, it only raises ActivityError
ClosesOnActivityError == FALSE

\* mutant: the reply is cached only when set_activity goes on to return it
CacheOnReturn(old, output, raises) == IF raises THEN old ELSE output

\* self.get_output after a reply was decoded: the assignment comes before the
\* test of output['evt'], so a reply that makes the call raise is cached too
Cache(old, output, raises) == output

\* mutant: send's op parameter defaults to HANDSHAKE
DefaultOpHandshake == OP_HANDSHAKE

\* the op of a send that names none: the default of send's op parameter
DefaultOp == OP_FRAME

\* the pair set_activity returns
Returned(op, output) == [t |-> "tuple", op |-> op, output |-> output]

\* the command frames the peer has received whole: a FRAME header followed
\* by its payload
NumCommands(w) ==
    Cardinality({k \in 2..Len(w) : w[k].kind = "payload" /\ w[k-1].kind = "header"
                                   /\ w[k-1].op = OP_FRAME})

\* the peer's reply to the n-th command, as the frame the session reads
ReplyTo(n, r) == [op |-> r.op, data |-> r.data, re |-> n]

(* set_activity(p): validation, the command's send, the two reads of the   *)
(* reply, the cache of the decoded reply, and the test of its evt. The     *)
(* peer answers every command it received whole; the reads take the oldest *)
(* frame of the stream, which is this command's reply unless an earlier    *)
(* read raised and left its reply behind.                                   *)
SetActivity ==
    /\ phase = "ready"
    /\ calls < MaxCalls
    /\ \E p \in ActivityInputs :
        /\ args' = p
        /\ IF Validate(p) # NoError
           THEN /\ err' = Validate(p) /\ io' = <<>> /\ ret' = None
                /\ UNCHANGED <<wire, rcvd, get_output, handle, closeCalls, releases,
                               pending>>
           ELSE \E wf \in WriteFaults :
             LET s == Send(wire, handle, platform, SetActivityData(p), DefaultOp, wf) IN
             IF s.err # NoError
             THEN /\ err' = s.err /\ io' = s.io /\ wire' = s.wire /\ ret' = None
                  /\ UNCHANGED <<rcvd, get_output, handle, closeCalls, releases,
                                 pending>>
             ELSE \E rf \in BOOLEAN :
               IF RecvRaises(handle, rf)
               THEN /\ err' = RecvError(handle, platform)
                    /\ io' = s.io \o <<"read!">> /\ wire' = s.wire /\ ret' = None
                    /\ pending' = Append(pending, NumCommands(s.wire))
                    /\ UNCHANGED <<rcvd, get_output, handle, closeCalls, releases>>
               ELSE \E r \in ActivityReplies :
                 LET rio == s.io \o <<"read_header", "read_payload">>
                     c == CloseBody(s.wire, handle, platform, "none")
                     mine == NumCommands(s.wire)
                     got == ReplyTo(IF pending = <<>> THEN mine ELSE Head(pending), r)
                 IN
                 /\ pending' = IF pending = <<>> THEN <<>>
                               ELSE Append(Tail(pending), mine)
                 /\ rcvd' = Append(rcvd, got)
                 /\ get_output' = Cache(get_output, got.data,
                                         ~HasKey(got.data, "evt")
                                         \/ got.data["evt"] = "ERROR")
                 /\ IF ~HasKey(got.data, "evt")
                    THEN /\ err' = Raised("KeyError", "evt") /\ ret' = None
                         /\ io' = rio /\ wire' = s.wire
                         /\ UNCHANGED <<handle, closeCalls, releases>>
                    ELSE IF got.data["evt"] = "ERROR"
                    THEN /\ err' = Raised("ActivityError", "") /\ ret' = None
                         /\ IF ClosesOnActivityError
                            THEN /\ io' = rio \o c.io /\ wire' = c.wire
                                 /\ handle' = c.handle
                                 /\ closeCalls' = closeCalls + c.closed
                                 /\ releases' = releases + c.released
                            ELSE /\ io' = rio /\ wire' = s.wire
                                 /\ UNCHANGED <<handle, closeCalls, releases>>
                    ELSE /\ err' = NoError /\ ret' = Returned(got.op, got.data)
                         /\ io' = rio /\ wire' = s.wire
                         /\ UNCHANGED <<handle, closeCalls, releases>>
    /\ calls' = calls + 1
    /\ lastOp' = "set_activity"
    /\ exc_info' = NoError
    /\ UNCHANGED <<platform, phase, i, tried, opened, inScope>>
    /\ UNCHANGED xvars

(* output(): the cached reply, or None *)
Output ==
    /\ phase = "ready"
    /\ ret' = get_output
    /\ err' = NoError
    /\ io' = <<>>
    /\ lastOp' = "output"
    /\ exc_info' = NoError
    /\ UNCHANGED <<platform, phase, i, tried, opened, handle, closeCalls, releases,
                   wire, rcvd, get_output, args, calls, inScope, pending>>
    /\ UNCHANGED xvars

(* close(), as the caller's explicit call *)
Close ==
    /\ phase = "ready"
    /\ closeCalls + (IF inScope THEN 1 ELSE 0) < MaxCloses
    /\ \E wf \in WriteFaults :
        LET c == CloseBody(wire, handle, platform, wf) IN
        /\ wire' = c.wire /\ err' = c.err /\ io' = c.io /\ handle' = c.handle
        /\ closeCalls' = closeCalls + c.closed
        /\ releases' = releases + c.released
    /\ lastOp' = "close"
    /\ ret' = None
    /\ exc_info' = NoError
    /\ UNCHANGED <<platform, phase, i, tried, opened, rcvd, get_output, args,
                   calls, inScope, pending>>
    /\ UNCHANGED xvars

\* the session object, as the value __enter__ returns
Self == [t |-> "RPC"]

(* __enter__: the caller opens a with-block over the session *)
Enter ==
    /\ phase = "ready"
    /\ ~inScope
    /\ closeCalls < MaxCloses
    /\ inScope' = TRUE
    /\ lastOp' = "__enter__"
    /\ err' = NoError
    /\ io' = <<>>
    /\ ret' = Self
    /\ exc_info' = NoError
    /\ UNCHANGED <<platform, phase, i, tried, opened, handle, closeCalls, releases,
                   wire, rcvd, get_output, args, calls, pending>>
    /\ UNCHANGED xvars

\* __exit__ on an exception only: the teardown is skipped on a normal leave
ExitClosesOnlyOnError(exc) == exc # NoError

\* whether __exit__ runs close(), given the exception it was passed: always,
\* it ignores its arguments
ExitClosesOn(exc) == TRUE

(* __exit__: the with-block is left, normally or because the last          *)
(* operation inside it raised and the block did not catch it; close().     *)
(* __exit__ returns None, so the exception it was passed goes on to the    *)
(* caller unless close() raises one of its own.                            *)
Exit ==
    /\ phase = "ready"
    /\ inScope
    /\ \E exc \in {NoError, err}, wf \in WriteFaults :
        LET c == CloseBody(wire, handle, platform, wf) IN
        /\ exc_info' = exc
        /\ IF ExitClosesOn(exc)
           THEN /\ wire' = c.wire /\ err' = c.err /\ io' = c.io
                /\ handle' = c.handle
                /\ closeCalls' = closeCalls + c.closed
                /\ releases' = releases + c.released
           ELSE /\ err' = NoError /\ io' = <<>>
                /\ UNCHANGED <<wire, handle, closeCalls, releases>>
    /\ inScope' = FALSE
    /\ lastOp' = "__exit__"
    /\ ret' = None
    /\ UNCHANGED <<platform, phase, i, tried, opened, rcvd, get_output, args, calls,
                   pending>>
    /\ UNCHANGED xvars

Next ==
    \/ Set_ID
    \/ ConnectStep
    \/ ConnectExhausted
    \/ Handshake
    \/ SetActivity
    \/ Close
    \/ Enter
    \/ Exit

Spec == Init /\ [][Next]_vars

(***************************************************************************)
(* The session from the moment RPC.Set_ID returns it: the first candidate  *)
(* was opened, the HANDSHAKE frame is on the wire, and the reply that      *)
(* _do_handshake read was accepted. From there the caller's operations.    *)
(***************************************************************************)
\* the session as Set_ID returned it
ReadySession ==
    /\ platform \in {"win32", "unix"}
    /\ phase = "ready"
    /\ i = 0
    /\ tried = <<0>>
    /\ opened = <<0>>
    /\ handle = "open"
    /\ closeCalls = 0
    /\ releases = 0
    /\ wire = Send(<<>>, "open", platform, HandshakeData, HandshakeOp, "none").wire
    /\ \E r \in HandshakeReplies :
        /\ HandshakeCheck(r.op, r.data) = "accept"
        /\ rcvd = <<r>>
    /\ get_output = None
    /\ err = NoError
    /\ lastOp = "Set_ID"
    /\ args = NoArgs
    /\ io = <<"write_header", "write_payload", "read_header", "read_payload">>
    /\ calls = 0
    /\ inScope = FALSE
    /\ ret = None
    /\ exc_info = NoError
    /\ pending = <<>>

InitReady == ReadySession /\ NoHarness

NextSession ==
    \/ SetActivity
    \/ Output
    \/ Close
    \/ Enter
    \/ Exit

SpecSession == InitReady /\ [][NextSession]_vars

---------------------------------------------------------------------------
(* Properties *)

\* The session state the specification speaks of, read off the state of the
\* program, which keeps no such field: Closed once the handle is closed,
\* HandshakeComplete once __init__ has returned, Connected while a handle is
\* open before that.
SessionState ==
    IF handle = "closed" THEN "Closed"
    ELSE IF phase = "ready" THEN "HandshakeComplete"
    ELSE IF handle = "open" THEN "Connected"
    ELSE "Disconnected"

\* the handshake's reply was read: it is the first frame of rcvd
HandshakeReplied == phase \in {"ready", "failed"} /\ Len(rcvd) >= 1

\* the reply is the READY dispatch
IsReady(r) ==
    /\ r.op = OP_FRAME
    /\ HasKey(r.data, "cmd") /\ r.data["cmd"] = "DISPATCH"
    /\ HasKey(r.data, "evt") /\ r.data["evt"] = "READY"

\* the reply was read and refused
HandshakeRejected == phase = "failed" /\ Len(rcvd) >= 1

Transfers == {"write_header", "write_payload", "read_header", "read_payload"}

\* the last two writes the transport accepted are the frame (op, text)
LastFrameIs(op, text) ==
    /\ Len(wire) >= 2
    /\ wire[Len(wire) - 1] = [kind |-> "header", op |-> op, length |-> Len(text)]
    /\ wire[Len(wire)] = [kind |-> "payload", bytes |-> text]

\* C1: _connect tries the candidates in ascending order from 0 without gap or
\* repeat, and stops at the first that opens: at most one candidate is ever
\* opened, and once candidate k is opened exactly 0..k have been tried and the
\* loop is over.
C1_FirstSuccessWins ==
    /\ Len(tried) <= NumCandidates
    /\ \A j \in 1..Len(tried) : tried[j] = j - 1
    /\ Len(opened) <= 1
    /\ Len(opened) = 1 =>
          /\ Len(tried) = opened[1] + 1
          /\ phase # "connecting"
    /\ phase \in {"handshaking", "ready"} => Len(opened) = 1

C1_Witness ==
    /\ platform = "unix"
    /\ phase = "handshaking"
    /\ opened = <<3>>
    /\ tried = <<0, 1, 2, 3>>

\* C2: when none of the ten candidates opens, construction fails with
\* DiscordNotOpened after one pass over 0..9, each tried once, and nothing
\* has been written to or read from a transport.
C2_NotOpenedAfterOnePass ==
    (phase \notin {"new", "connecting"} /\ opened = <<>>) =>
        /\ phase = "failed"
        /\ err = Raised("DiscordNotOpened", "")
        /\ tried = [j \in 1..NumCandidates |-> j - 1]
        /\ wire = <<>>
        /\ rcvd = <<>>
        /\ io = <<>>

C2_Witness ==
    /\ err.type = "DiscordNotOpened"
    /\ Len(tried) = 10
    /\ opened = <<>>

\* C3: once the handshake's reply is read, construction returns a session
\* exactly when the reply is op FRAME with cmd DISPATCH and evt READY; in
\* every other case construction has failed with an error raised; and no
\* session is returned without such a reply.
C3_HandshakeAcceptsOnlyReady ==
    /\ HandshakeReplied =>
          /\ (phase = "ready") <=> IsReady(rcvd[1])
          /\ ~IsReady(rcvd[1]) => (phase = "failed" /\ err # NoError)
    /\ phase = "ready" => Len(rcvd) >= 1

C3_Witness ==
    /\ phase = "failed"
    /\ rcvd = << [op |-> OP_FRAME, data |-> [cmd |-> "DISPATCH", evt |-> "ERROR"]] >>
    /\ err.type = "RuntimeError"

\* C4: when the refused handshake reply has op CLOSE the transport has been
\* closed when the error reaches the caller, and when it has any other op the
\* error raised is the RuntimeError that carries the reply's payload.
C4_CloseThenErrorElsePayload ==
    HandshakeRejected =>
        IF rcvd[1].op = OP_CLOSE
        THEN handle = "closed" /\ closeCalls >= 1
        ELSE err.type = "RuntimeError" /\ err.arg = rcvd[1].data

\* C5: every close() (the caller's, __exit__'s, and the one the handshake runs
\* on a CLOSE reply) first attempts the header write of the CLOSE frame and
\* ends with _close, also when a write raised; the handle is then closed, and
\* when no write raised the frame written is op CLOSE with payload {}.
C5_CloseAlwaysClosesTransport ==
    (\/ lastOp \in {"close", "__exit__"}
     \/ (HandshakeRejected /\ rcvd[1].op = OP_CLOSE)) =>
        /\ handle = "closed"
        /\ Len(io) >= 2
        /\ io[Len(io)] = "_close"
        /\ io[Len(io) - 1] \in {"write_header!", "write_payload!", "write_payload"}
        /\ io[Len(io) - 1] = "write_payload" => LastFrameIs(OP_CLOSE, "{}")

C5_Witness ==
    /\ lastOp = "close"
    /\ err = Raised("OSError", "timed out")
    /\ io = <<"write_header", "write_payload!", "_close">>
    /\ handle = "closed"

\* C6 as claimed: _close is never executed a second time on a transport.
C6_CloseExecutedAtMostOnce == closeCalls <= 1

\* C6: the handle is released at most once: every execution of _close leaves
\* it closed, the first one releases it, and a later one finds it closed and
\* releases nothing.
C6_ReleasedAtMostOnce ==
    /\ releases <= 1
    /\ closeCalls >= 1 => releases = 1
    /\ handle = "closed" <=> releases = 1

C6_Witness ==
    /\ closeCalls = 2
    /\ releases = 1
    /\ lastOp = "__exit__"

\* C7: once _close has run, the handle stays closed and the session state
\* stays Closed, and no later operation transfers anything: nothing more is
\* written to or read from the transport.
C7_ClosedIsTerminal ==
    /\ [](closeCalls >= 1 => handle = "closed" /\ SessionState = "Closed")
    /\ [][closeCalls >= 1 =>
            /\ wire' = wire
            /\ rcvd' = rcvd
            /\ handle' = "closed"
            /\ SessionState' = "Closed"
            /\ \A k \in 1..Len(io') : io'[k] \notin Transfers]_vars

C7_Witness ==
    /\ closeCalls >= 1
    /\ lastOp = "set_activity"
    /\ Validate(args) = NoError
    /\ io = <<"write_header!">>
    /\ err = ClosedError(platform)

\* C8 as claimed: whenever the handshake's reply is refused the session is
\* Closed when the error reaches the caller.
C8_ClosedOnEveryRejection ==
    HandshakeRejected => SessionState = "Closed"

\* C8: a refused handshake leaves the session Closed exactly when the
\* reply's op is CLOSE; after a refused reply of any other op the transport
\* is still open (state Connected) and _close has not run.
C8_ClosedOnlyOnCloseReply ==
    HandshakeRejected =>
        /\ (SessionState = "Closed") <=> (rcvd[1].op = OP_CLOSE)
        /\ rcvd[1].op # OP_CLOSE =>
              /\ handle = "open"
              /\ closeCalls = 0
              /\ SessionState = "Connected"

C8_Witness ==
    /\ phase = "failed"
    /\ Len(rcvd) = 1
    /\ rcvd[1].op = OP_PING
    /\ err.type = "RuntimeError"
    /\ handle = "open"

\* the frames of one set_activity that got through: one frame written, one read
OneRoundTrip == <<"write_header", "write_payload", "read_header", "read_payload">>

\* C9: an ActivityError leaves the transport open and the session in
\* HandshakeComplete (_close has not run), and the set_activity that follows
\* it either fails its validation, or meets a fault of the operating system,
\* or writes one command frame and reads one reply frame.
C9_ActivityErrorKeepsSession ==
    /\ [](err.type = "ActivityError" =>
            /\ handle = "open"
            /\ closeCalls = 0
            /\ SessionState = "HandshakeComplete"
            /\ io = OneRoundTrip
            /\ rcvd[Len(rcvd)].data["evt"] = "ERROR")
    /\ [][(err.type = "ActivityError" /\ calls' = calls + 1) =>
            \/ Validate(args') # NoError /\ io' = <<>>
            \/ err' = Raised("OSError", "timed out")
            \/ /\ io' = OneRoundTrip
               /\ Len(wire') = Len(wire) + 2
               /\ wire'[Len(wire') - 1].op = OP_FRAME
               /\ Len(rcvd') = Len(rcvd) + 1]_vars

C9_Witness ==
    /\ lastOp = "set_activity"
    /\ calls = 2
    /\ Len(rcvd) = 3
    /\ rcvd[2].data = [cmd |-> "SET_ACTIVITY", evt |-> "ERROR"]
    /\ io = OneRoundTrip
    /\ err = NoError

\* small_text or large_text is a string of at most 3 characters
HasShortText(p) ==
    \/ p.small_text.t = "str" /\ Len(p.small_text.v) <= 3
    \/ p.large_text.t = "str" /\ Len(p.large_text.v) <= 3

\* C10: a set_activity whose small_text or large_text has at most 3
\* characters raises the validation Error with no transport call at all, and
\* leaves what was written, what was read, the cached output, the handle and
\* the session state as they were.
C10_ShortTextRejectedBeforeIO ==
    /\ []((lastOp = "set_activity" /\ HasShortText(args)) =>
            /\ err.type = "Error"
            /\ io = <<>>)
    /\ [][(calls' = calls + 1 /\ HasShortText(args')) =>
            /\ wire' = wire
            /\ rcvd' = rcvd
            /\ get_output' = get_output
            /\ handle' = handle
            /\ closeCalls' = closeCalls
            /\ SessionState' = SessionState]_vars

C10_Witness ==
    /\ lastOp = "set_activity"
    /\ args.small_text = Str("ab")
    /\ err = Raised("Error", "small text")
    /\ SessionState = "HandshakeComplete"
    /\ Len(wire) = 2

(***************************************************************************)
(* The claims about what a session puts on the wire, under Spec            *)
(***************************************************************************)

\* the positions of the wire that hold a header with the op
HeadersWith(op) == {k \in 1..Len(wire) : wire[k].kind = "header" /\ wire[k].op = op}

\* C19: whatever is written first on a session's transport is the HANDSHAKE
\* frame {"v":1,"client_id":...}, header then payload; no second HANDSHAKE
\* header is ever written, and a session that was returned has written
\* exactly one; a FRAME header (a SET_ACTIVITY command) is on the wire only
\* of a session whose handshake reply was accepted as READY.
C19_HandshakeFirstAndOnce ==
    /\ Len(wire) >= 1 =>
          wire[1] = [kind |-> "header", op |-> 0, length |-> 24]
    /\ Len(wire) >= 2 =>
          wire[2] = [kind |-> "payload", bytes |-> "{\"v\":1,\"client_id\":\"42\"}"]
    /\ Cardinality(HeadersWith(OP_HANDSHAKE)) <= 1
    /\ phase = "ready" => HeadersWith(OP_HANDSHAKE) = {1}
    /\ HeadersWith(OP_FRAME) # {} =>
          /\ phase = "ready"
          /\ IsReady(rcvd[1])
          /\ \A k \in HeadersWith(OP_FRAME) : k > 2

\* a returned session that has sent a command and a CLOSE frame after its
\* handshake
C19_Witness ==
    /\ phase = "ready"
    /\ HeadersWith(OP_HANDSHAKE) = {1}
    /\ HeadersWith(OP_FRAME) = {3}
    /\ HeadersWith(OP_CLOSE) = {5}
    /\ Len(wire) = 6

\* C17, as claimed: the bytes a session has written are a concatenation of
\* whole frames, each header followed by a payload of the declared length,
\* with at most one header without its payload, and that one at the very end.
C17_StreamOfWholeFrames ==
    \A k \in 1..Len(wire) :
        IF wire[k].kind = "header"
        THEN k = Len(wire)
             \/ (wire[k+1].kind = "payload"
                 /\ wire[k].length = Len(wire[k+1].bytes))
        ELSE k > 1 /\ wire[k-1].kind = "header"

\* the write events of the last operation, in order
WriteEvents ==
    SelectSeq(io, LAMBDA e : e \in {"write_header", "write_header!",
                                    "write_payload", "write_payload!"})

\* C17, amended: a send makes two transport writes, the header and then the
\* payload, and no other write of the same caller comes between them; a
\* payload on the wire always directly follows its own header, whose length
\* field is the payload's exact byte length. A header whose payload write
\* failed stays on the wire without payload, and what follows it is the
\* header of the next send, so truncated frames can lie anywhere in the
\* stream, not only at its end.
C17_PayloadFollowsItsHeader ==
    /\ [](\A k \in 1..Len(wire) :
            wire[k].kind = "payload" =>
                /\ k > 1
                /\ wire[k-1].kind = "header"
                /\ wire[k-1].length = Len(wire[k].bytes))
    /\ [](Len(wire) >= 1 => wire[1].kind = "header")
    /\ [](\A k \in 1..Len(WriteEvents) :
            /\ WriteEvents[k] = "write_header" =>
                  /\ k < Len(WriteEvents)
                  /\ WriteEvents[k+1] \in {"write_payload", "write_payload!"}
            /\ WriteEvents[k] \in {"write_payload", "write_payload!"} =>
                  k > 1 /\ WriteEvents[k-1] = "write_header"
            /\ WriteEvents[k] = "write_header!" =>
                  (k = Len(WriteEvents)
                   \/ WriteEvents[k+1] \in {"write_header", "write_header!"}))
    /\ [][/\ Len(wire') >= Len(wire)
          /\ SubSeq(wire', 1, Len(wire)) = wire]_vars

\* a command's header went out, its payload write failed, and the CLOSE
\* frame of the teardown was written whole after it
C17_Witness ==
    /\ Len(wire) = 5
    /\ wire[3].kind = "header" /\ wire[3].op = OP_FRAME
    /\ wire[4] = HeaderOf(OP_CLOSE, "{}")
    /\ wire[5] = PayloadOf("{}")
    /\ handle = "closed"

(***************************************************************************)
(* set_activity's activity object as a function of its arguments: the      *)
(* arguments are drawn from every combination of absent and present values *)
(* and the construction of lines 160-192 is applied to them.               *)
(***************************************************************************)
TextValues == {None, Str(""), Str("null"), Str("Valid!")}
ImageValues == {None, Str(""), Str("null"), Str("logo")}

ActivityArgs ==
    [state : {None, Str(""), Str("null"), Str("hi")},
     details : {None, Str(""), Str("null"), Str("hi")},
     timestamp : {None, Str(""), Lit("1700000000")},
     small_text : TextValues,
     large_text : TextValues,
     small_image : ImageValues,
     large_image : ImageValues,
     buttons : {None, Lit("[{\"label\":\"site\",\"url\":\"https://example.org\"}]")}]

InitActivity ==
    /\ NoSession
    /\ platform = "unix"
    /\ kwargs \in ActivityArgs
    /\ act = Unset
    /\ FrameIdle /\ ConcIdle

\* lines 160-192: the two length checks, the dict, the pops
BuildActivity ==
    /\ act = Unset
    /\ act' = IF Validate(kwargs) # NoError
              THEN [raised |-> Validate(kwargs), activity |-> <<>>, assets |-> <<>>]
              ELSE [raised |-> NoError, activity |-> Activity(kwargs),
                    assets |-> Assets(kwargs)]
    /\ UNCHANGED <<kwargs, svars, fvars, cvars>>

NextActivity == BuildActivity

SpecActivity == InitActivity /\ [][NextActivity]_vars

\* the keys of a dict held as a sequence of <<key, value>> pairs
Keys(pairs) == {pairs[k][1] : k \in DOMAIN pairs}

Built == act # Unset /\ act.raised = NoError

\* C12: in the activity object that set_activity builds, a field whose
\* argument is absent (None, '' or 'null') is omitted: state, details,
\* timestamps and buttons at the top, small_text, large_text, small_image and
\* large_image under assets.
C12_AbsentFieldsOmitted ==
    Built =>
        /\ Absent(kwargs.state) => "state" \notin Keys(act.activity)
        /\ Absent(kwargs.details) => "details" \notin Keys(act.activity)
        /\ Absent(kwargs.timestamp) => "timestamps" \notin Keys(act.activity)
        /\ Absent(kwargs.buttons) => "buttons" \notin Keys(act.activity)
        /\ Absent(kwargs.small_text) => "small_text" \notin Keys(act.assets)
        /\ Absent(kwargs.large_text) => "large_text" \notin Keys(act.assets)
        /\ Absent(kwargs.small_image) => "small_image" \notin Keys(act.assets)
        /\ Absent(kwargs.large_image) => "large_image" \notin Keys(act.assets)

(***************************************************************************)
(* The claims about the session in use, under SpecSession                  *)
(***************************************************************************)

\* the last operation was a set_activity whose arguments passed validation
\* and whose transport calls all returned
RoundTripDone ==
    /\ lastOp = "set_activity"
    /\ Validate(args) = NoError
    /\ \A k \in 1..Len(io) : io[k] \in Transfers

C13_OutputReturnsLastReply ==
    /\ [](lastOp = "output" =>
            /\ ret = (IF Len(rcvd) = 1 THEN None ELSE rcvd[Len(rcvd)].data)
            /\ ret = get_output
            /\ io = <<>>
            /\ err = NoError)
    /\ [][lastOp' = "output" =>
            /\ get_output' = get_output
            /\ wire' = wire
            /\ rcvd' = rcvd
            /\ pending' = pending
            /\ handle' = handle]_vars

\* output() after two replies were read, the second of which made
\* set_activity raise: it returns that second reply
C13_Witness ==
    /\ lastOp = "output"
    /\ Len(rcvd) = 3
    /\ rcvd[3].data # rcvd[2].data
    /\ HasKey(rcvd[3].data, "evt") /\ rcvd[3].data["evt"] = "ERROR"
    /\ ret = rcvd[3].data

\* how many writes of the last operation the transport accepted
WritesAccepted ==
    Cardinality({k \in 1..Len(io) : io[k] \in {"write_header", "write_payload"}})

\* C14: whenever the caller leaves a with-scope, normally or because an
\* operation inside it raised (validation error, ActivityError, I/O error),
\* close() runs: the send of a CLOSE frame is attempted first, then the
\* transport is released, and the handle is closed afterwards.
C14_ScopeExitRunsClose ==
    /\ [](lastOp = "__exit__" =>
            /\ ~inScope
            /\ handle = "closed"
            /\ Len(io) >= 2
            /\ io[1] \in {"write_header", "write_header!"}
            /\ io[Len(io)] = "_close"
            /\ (io[1] = "write_header" =>
                  wire[Len(wire) - WritesAccepted + 1] =
                      HeaderOf(OP_CLOSE, JsonObj(CloseData))))
    /\ [][(inScope /\ ~inScope') =>
            /\ lastOp' = "__exit__"
            /\ exc_info' \in {NoError, err}
            /\ closeCalls' = closeCalls + 1]_vars

\* the scope was left because set_activity raised ActivityError: the CLOSE
\* frame went out and the transport was released
C14_Witness ==
    /\ lastOp = "__exit__"
    /\ exc_info = Raised("ActivityError", "")
    /\ io = <<"write_header", "write_payload", "_close">>
    /\ LastFrameIs(OP_CLOSE, JsonObj(CloseData))
    /\ handle = "closed"
    /\ releases = 1

(***************************************************************************)
(* send, recv and _recv_exactly over bytes. A header is the eight bytes of *)
(* struct.pack("<II", op, length); a payload is the UTF-8 text json.dumps  *)
(* produced, held as a sequence of byte values.                            *)
(***************************************************************************)
HeaderSize == 8
Quote == 34
Comma == 44
Colon == 58
LBrace == 123
RBrace == 125
Zero == 48

\* a 32-bit unsigned integer as four bytes, least significant first ("<I")
LE32(x) == <<x % 256, (x \div 256) % 256, (x \div 65536) % 256,
             (x \div 16777216) % 256>>

\* the same, most significant first (">I")
BE32(x) == <<(x \div 16777216) % 256, (x \div 65536) % 256, (x \div 256) % 256,
             x % 256>>

\* mutant: the header is packed big-endian
PackBigEndian(op, length) == BE32(op) \o BE32(length)

\* struct.pack("<II", op, length)
Pack(op, length) == LE32(op) \o LE32(length)

FromLE32(b) == b[1] + 256 * b[2] + 65536 * b[3] + 16777216 * b[4]

\* struct.unpack("<II", header)
Unpack(b) == [op |-> FromLE32(SubSeq(b, 1, 4)), length |-> FromLE32(SubSeq(b, 5, 8))]

\* Python values that json.dumps takes: int, str (as its character codes),
\* and dict, held as a sequence of <<key, value>> pairs in insertion order
PInt(n) == [t |-> "int", v |-> n]
PStr(cs) == [t |-> "str", v |-> cs]

\* the decimal digits of a natural number
RECURSIVE DigitsOf(_)
DigitsOf(n) ==
    IF n < 10 THEN <<Zero + n>> ELSE DigitsOf(n \div 10) \o <<Zero + (n % 10)>>

\* json.dumps of an int or of a str without characters that need an escape
DumpsValue(x) ==
    IF x.t = "int" THEN DigitsOf(x.v) ELSE <<Quote>> \o x.v \o <<Quote>>

RECURSIVE DumpsMembers(_)
DumpsMembers(d) ==
    IF d = <<>> THEN <<>>
    ELSE <<Quote>> \o d[1][1] \o <<Quote, Colon>> \o DumpsValue(d[1][2])
         \o (IF Len(d) = 1 THEN <<>> ELSE <<Comma>> \o DumpsMembers(Tail(d)))

\* json.dumps(data, separators=(',', ':')).encode('utf-8')
Dumps(d) == <<LBrace>> \o DumpsMembers(d) \o <<RBrace>>

\* the position of the first quote at or after p, 0 when there is none
NextQuote(b, p) ==
    IF \E q \in p..Len(b) : b[q] = Quote
    THEN CHOOSE q \in p..Len(b) :
            b[q] = Quote /\ \A r \in p..(q - 1) : b[r] # Quote
    ELSE 0

\* the position of the last digit of the run of digits that starts at p,
\* p - 1 when there is no digit at p
RECURSIVE DigitsEnd(_, _)
DigitsEnd(b, p) ==
    IF p <= Len(b) /\ b[p] \in Zero..(Zero + 9) THEN DigitsEnd(b, p + 1) ELSE p - 1

RECURSIVE IntOf(_)
IntOf(ds) ==
    IF ds = <<>> THEN 0
    ELSE 10 * IntOf(SubSeq(ds, 1, Len(ds) - 1)) + (ds[Len(ds)] - Zero)

Decoded(d) == [ok |-> TRUE, v |-> d]
DecodeError == [ok |-> FALSE, v |-> <<>>]

\* the members of an object from position p on, up to the closing brace that
\* must end the text
RECURSIVE LoadsMembers(_, _)
LoadsMembers(b, p) ==
    IF p > Len(b) \/ b[p] # Quote THEN DecodeError
    ELSE
      LET kq == NextQuote(b, p + 1) IN
      IF kq = 0 \/ kq + 2 > Len(b) \/ b[kq + 1] # Colon THEN DecodeError
      ELSE
        LET key == SubSeq(b, p + 1, kq - 1)
            vp == kq + 2
            isStr == b[vp] = Quote
            vq == IF isStr THEN NextQuote(b, vp + 1) ELSE DigitsEnd(b, vp)
            ok == IF isStr THEN vq # 0 ELSE vq >= vp
            val == IF isStr THEN PStr(SubSeq(b, vp + 1, vq - 1))
                   ELSE PInt(IntOf(SubSeq(b, vp, vq)))
            nx == vq + 1
        IN
        IF ~ok \/ nx > Len(b) THEN DecodeError
        ELSE IF b[nx] = RBrace
        THEN (IF nx = Len(b) THEN Decoded(<< <<key, val>> >>) ELSE DecodeError)
        ELSE IF b[nx] = Comma
        THEN LET rest == LoadsMembers(b, nx + 1) IN
             IF rest.ok THEN Decoded(<< <<key, val>> >> \o rest.v) ELSE DecodeError
        ELSE DecodeError

\* json.loads(payload.decode('utf-8')) for an object of ints and strs
Loads(b) ==
    IF Len(b) < 2 \/ b[1] # LBrace THEN DecodeError
    ELSE IF b[2] = RBrace THEN (IF Len(b) = 2 THEN Decoded(<<>>) ELSE DecodeError)
    ELSE LoadsMembers(b, 2)

\* the length of the long string of the payloads drawn: long enough for the
\* header's length field to need its second byte
LongLen == 260

\* "v", "client_id", "42", "a" as character codes
KeyV == <<118>>
KeyClientId == <<99, 108, 105, 101, 110, 116, 95, 105, 100>>
Text42 == <<52, 50>>
KeyA == <<97>>

\* the payloads drawn: {}, the handshake's dict, an empty and a long string,
\* a number of several digits
JsonPayloads ==
    { <<>>,
      << <<KeyV, PInt(1)>>, <<KeyClientId, PStr(Text42)>> >>,
      << <<KeyA, PStr(<<>>)>> >>,
      << <<KeyA, PInt(4242)>>, <<KeyV, PInt(0)>> >>,
      << <<KeyA, PStr([k \in 1..LongLen |-> 120])>> >> }

Min(a, b) == IF a <= b THEN a ELSE b

\* the numbers of bytes one _recv may return when m bytes can be taken: any
\* number up to MaxChunk, or all of them
ChunkSizes(m) == {k \in 1..m : k <= MaxChunk \/ k = m}

\* mutant: every _recv asks for the whole size again
RequestWhole(n, remaining) == n

\* the size _recv_exactly passes to _recv: what is still missing
RequestSize(n, remaining) == remaining

\* mutant: an empty chunk ends the loop with an error
EmptyChunkRaisesEOF(chunk) == chunk = <<>>

\* whether _recv_exactly raises on the chunk it got: never, it has no test
\* of the chunk at all
EmptyChunkRaises(chunk) == FALSE

\* send(data, op): json.dumps, encode, pack, two writes. The peer of this
\* harness loops the bytes back.
SendBytes ==
    /\ fpc = "idle"
    /\ msg # Unset
    /\ LET data_bytes == Dumps(msg.data)
           hd == Pack(msg.op, Len(data_bytes))
       IN /\ sent' = <<hd, data_bytes>>
          /\ src' = hd \o data_bytes
          /\ stream' = hd \o data_bytes
    /\ fpc' = "sent"
    /\ UNCHANGED <<msg, eof, size, buf, size_remaining, req, empties, partial,
                   header, out>>
    /\ UNCHANGED <<svars, avars, cvars>>

\* recv() up to the first iteration of _recv_header's _recv_exactly(8)
RecvBegin ==
    /\ fpc = "sent"
    /\ fpc' = "header"
    /\ size' = HeaderSize
    /\ buf' = <<>>
    /\ size_remaining' = HeaderSize
    /\ empties' = 0
    /\ UNCHANGED <<msg, sent, src, eof, stream, req, partial, header, out>>
    /\ UNCHANGED <<svars, avars, cvars>>

\* one iteration of the while loop of _recv_exactly: _recv gives between one
\* byte and the requested number of the bytes at hand, blocks while the
\* stream is empty and open, and gives b"" once the peer has closed
RecvChunk ==
    /\ fpc \in {"header", "payload", "raw"}
    /\ size_remaining # 0
    /\ LET want == RequestSize(size, size_remaining) IN
       /\ req' = want
       /\ IF stream # <<>>
          THEN \E k \in ChunkSizes(Min(want, Len(stream))) :
                 /\ buf' = buf \o SubSeq(stream, 1, k)
                 /\ stream' = SubSeq(stream, k + 1, Len(stream))
                 /\ size_remaining' = size_remaining - k
                 /\ partial' = (partial \/ k < want)
                 /\ UNCHANGED <<empties, fpc>>
          ELSE /\ eof
               /\ empties < MaxEmptyReads
               /\ empties' = empties + 1
               /\ partial' = TRUE
               /\ fpc' = IF EmptyChunkRaises(<<>>) THEN "raised" ELSE fpc
               /\ UNCHANGED <<buf, stream, size_remaining>>
    /\ UNCHANGED <<msg, sent, src, eof, size, header, out>>
    /\ UNCHANGED <<svars, avars, cvars>>

\* _recv_header returns: unpack, then recv's _recv_exactly(length) begins
RecvHeaderReturn ==
    /\ fpc = "header"
    /\ size_remaining = 0
    /\ header' = Unpack(buf)
    /\ fpc' = "payload"
    /\ size' = Unpack(buf).length
    /\ buf' = <<>>
    /\ size_remaining' = Unpack(buf).length
    /\ empties' = 0
    /\ UNCHANGED <<msg, sent, src, eof, stream, req, partial, out>>
    /\ UNCHANGED <<svars, avars, cvars>>

\* recv returns: decode, json.loads, return op, data
RecvReturn ==
    /\ fpc = "payload"
    /\ size_remaining = 0
    /\ IF Loads(buf).ok
       THEN /\ out' = [op |-> header.op, data |-> Loads(buf).v]
            /\ fpc' = "done"
       ELSE /\ out' = Unset
            /\ fpc' = "raised"
    /\ UNCHANGED <<msg, sent, src, eof, stream, size, buf, size_remaining, req,
                   empties, partial, header>>
    /\ UNCHANGED <<svars, avars, cvars>>

\* a direct _recv_exactly(size) returns its buf
RawReturn ==
    /\ fpc = "raw"
    /\ size_remaining = 0
    /\ out' = buf
    /\ fpc' = "done"
    /\ UNCHANGED <<msg, sent, src, eof, stream, size, buf, size_remaining, req,
                   empties, partial, header>>
    /\ UNCHANGED <<svars, avars, cvars>>

\* send_recv(data, op) on a returned session, for every op and payload drawn
InitFrame ==
    /\ ReadySession /\ platform = "unix"
    /\ ActIdle /\ ConcIdle
    /\ msg \in [op : OpCodes, data : JsonPayloads]
    /\ sent = <<>> /\ src = <<>> /\ eof = FALSE /\ stream = <<>>
    /\ fpc = "idle" /\ size = 0 /\ buf = <<>> /\ size_remaining = 0 /\ req = 0
    /\ empties = 0 /\ partial = FALSE /\ header = Unset /\ out = Unset

NextFrame ==
    \/ SendBytes
    \/ RecvBegin
    \/ RecvChunk
    \/ RecvHeaderReturn
    \/ RecvReturn

SpecFrame == InitFrame /\ [][NextFrame]_vars

\* the streams a direct _recv_exactly reads from: bytes that differ by
\* position, so that their order shows
Streams == {[k \in 1..n |-> 10 + k] : n \in 0..MaxStream}

\* _recv_exactly(size) on a returned session, for every size and stream
\* drawn, the peer closing after the stream's last byte or not
InitRecv ==
    /\ ReadySession /\ platform = "unix"
    /\ ActIdle /\ ConcIdle
    /\ msg = Unset /\ sent = <<>>
    /\ src \in Streams
    /\ stream = src
    /\ eof \in BOOLEAN
    /\ fpc = "raw"
    /\ size \in 0..MaxSize
    /\ size_remaining = size
    /\ buf = <<>>
    /\ req = 0 /\ empties = 0 /\ partial = FALSE /\ header = Unset /\ out = Unset

NextRecv ==
    \/ RecvChunk
    \/ RawReturn

SpecRecv == InitRecv /\ [][NextRecv]_vars

(***************************************************************************)
(* Two execution contexts on one session. set_activity is four transport   *)
(* calls in a row: two writes (send) and two reads (_recv_header and       *)
(* _recv_exactly(length)); another context can run between any two of      *)
(* them. The peer answers each command it received as a whole frame and    *)
(* stops answering once the bytes it received are no sequence of frames.   *)
(* With mutex, a caller holds the lock from its call to its return.        *)
(***************************************************************************)
Part(kind, t, n) == [kind |-> kind, by |-> t, n |-> n]

\* mutant: a read leaves in the stream what it returned
ReadPeeks(q) == q

\* what a read leaves in the stream: it consumes what it returns
ReadTakes(q) == Tail(q)

InitConc ==
    /\ ReadySession /\ platform = "unix"
    /\ ActIdle /\ FrameIdle
    /\ mutex \in BOOLEAN
    /\ lock = 0
    /\ tpc = [t \in Contexts |-> "idle"]
    /\ tcall = [t \in Contexts |-> 0]
    /\ lastWrite = Unset
    /\ peerOk = TRUE
    /\ inq = <<>>
    /\ rd = [t \in Contexts |-> <<>>]
    /\ crossed = FALSE /\ misread = FALSE

\* a context calls set_activity, after taking the lock where there is one
ConcCall(t) ==
    /\ tpc[t] = "idle"
    /\ tcall[t] < MaxConcCalls
    /\ mutex => lock = 0
    /\ lock' = IF mutex THEN t ELSE lock
    /\ tpc' = [tpc EXCEPT ![t] = "called"]
    /\ tcall' = [tcall EXCEPT ![t] = @ + 1]
    /\ rd' = [rd EXCEPT ![t] = <<>>]
    /\ UNCHANGED <<mutex, lastWrite, peerOk, inq, crossed, misread>>
    /\ UNCHANGED <<svars, avars, fvars>>

\* send: self._write(header)
ConcWriteHeader(t) ==
    /\ tpc[t] = "called"
    /\ lastWrite' = Part("header", t, tcall[t])
    /\ crossed' = (crossed \/ (lastWrite # Unset /\ lastWrite.kind = "header"
                               /\ lastWrite.by # t))
    /\ peerOk' = (peerOk /\ (lastWrite = Unset \/ lastWrite.kind = "payload"))
    /\ tpc' = [tpc EXCEPT ![t] = "wrote_header"]
    /\ UNCHANGED <<mutex, lock, tcall, inq, rd, misread>>
    /\ UNCHANGED <<svars, avars, fvars>>

\* send: self._write(data_bytes); the peer answers a whole frame
ConcWritePayload(t) ==
    /\ tpc[t] = "wrote_header"
    /\ LET whole == peerOk /\ lastWrite = Part("header", t, tcall[t]) IN
       /\ peerOk' = whole
       /\ inq' = IF whole
                 THEN inq \o <<Part("header", t, tcall[t]),
                               Part("payload", t, tcall[t])>>
                 ELSE inq
    /\ lastWrite' = Part("payload", t, tcall[t])
    /\ tpc' = [tpc EXCEPT ![t] = "sent"]
    /\ UNCHANGED <<mutex, lock, tcall, rd, crossed, misread>>
    /\ UNCHANGED <<svars, avars, fvars>>

\* _recv_header: the next eight bytes of the stream, whatever they are
ConcReadHeader(t) ==
    /\ tpc[t] = "sent"
    /\ inq # <<>>
    /\ rd' = [rd EXCEPT ![t] = <<Head(inq)>>]
    /\ inq' = ReadTakes(inq)
    /\ tpc' = [tpc EXCEPT ![t] = "read_header"]
    /\ UNCHANGED <<mutex, lock, tcall, lastWrite, peerOk, crossed, misread>>
    /\ UNCHANGED <<svars, avars, fvars>>

\* _recv_exactly(length), then set_activity returns and the lock is given
\* back
ConcReadPayload(t) ==
    /\ tpc[t] = "read_header"
    /\ inq # <<>>
    /\ LET parts == Append(rd[t], Head(inq)) IN
       /\ rd' = [rd EXCEPT ![t] = parts]
       /\ misread' = (misread \/ \E u \in Contexts \ {t}, n \in 1..MaxConcCalls :
                                   parts = <<Part("header", u, n),
                                             Part("payload", u, n)>>)
    /\ inq' = ReadTakes(inq)
    /\ tpc' = [tpc EXCEPT ![t] = "idle"]
    /\ lock' = IF mutex THEN 0 ELSE lock
    /\ UNCHANGED <<mutex, tcall, lastWrite, peerOk, crossed>>
    /\ UNCHANGED <<svars, avars, fvars>>

NextConc ==
    \/ \E t \in Contexts : ConcCall(t)
    \/ \E t \in Contexts : ConcWriteHeader(t)
    \/ \E t \in Contexts : ConcWritePayload(t)
    \/ \E t \in Contexts : ConcReadHeader(t)
    \/ \E t \in Contexts : ConcReadPayload(t)

SpecConc == InitConc /\ [][NextConc]_vars

\* C18: with the calls of the two contexts serialized through a mutex, no
\* header is ever followed on the wire by the other caller's header, no
\* caller reads the reply to the other's command, and every call that
\* returned has read the reply to its own command. Without the mutex both
\* failures are reachable (C18_Witness).
C18_MutexKeepsCallsApart ==
    mutex =>
        /\ ~crossed
        /\ ~misread
        /\ peerOk
        /\ \A t \in Contexts :
              (tpc[t] = "idle" /\ tcall[t] > 0) =>
                  rd[t] = <<Part("header", t, tcall[t]),
                            Part("payload", t, tcall[t])>>

\* without a mutex: one caller's header was followed on the wire by the
\* other's header, and a caller has read the reply to the other's command
C18_Witness ==
    /\ ~mutex
    /\ crossed
    /\ misread

\* C15: _recv_exactly(size) returns exactly the first size bytes of the
\* stream, in order, for every size from 0 up and every way the reads split
\* them; each _recv is asked for exactly the bytes still missing, never more,
\* and nothing beyond the first size bytes is taken from the stream.
C15_RecvExactlyTakesExactlySize ==
    /\ [](/\ buf \o stream = src
          /\ Len(buf) <= size
          /\ Len(buf) + size_remaining = size
          /\ req <= size)
    /\ [](fpc = "done" =>
            /\ out = SubSeq(src, 1, size)
            /\ Len(out) = size
            /\ stream = SubSeq(src, size + 1, Len(src)))
    /\ [][(buf' # buf \/ empties' # empties) =>
            /\ req' = size - Len(buf)
            /\ Len(buf') - Len(buf) <= req']_vars

\* four bytes were asked of a stream of six, they came in more than one
\* read, and the last two are still in the stream
C15_Witness ==
    /\ fpc = "done"
    /\ size = 4
    /\ partial
    /\ out = <<11, 12, 13, 14>>
    /\ stream = <<15, 16>>

\* the loop of _recv_exactly is waiting for bytes of a stream the peer has
\* closed
AtEof ==
    /\ fpc \in {"header", "payload", "raw"}
    /\ size_remaining # 0
    /\ stream = <<>>
    /\ eof

\* C20: there is no end-of-stream handling: once the transport's read
\* returns zero bytes while _recv_exactly still misses at least one, the loop
\* neither returns nor raises; every further step is another read that
\* returns nothing and changes nothing, so the call never ends and the
\* session's transport stays open, never Closed.
C20_EofLoopsForever ==
    /\ [](AtEof =>
            /\ ~ENABLED RawReturn
            /\ (empties < MaxEmptyReads => ENABLED RecvChunk))
    /\ [][AtEof =>
            /\ AtEof'
            /\ fpc' = fpc
            /\ buf' = buf
            /\ size_remaining' = size_remaining
            /\ out' = Unset
            /\ handle' = "open"]_vars

\* two bytes arrived, the peer closed, and the loop has read b"" twice
C20_Witness ==
    /\ AtEof
    /\ Len(buf) = 2
    /\ size_remaining > 0
    /\ empties >= 2
    /\ SessionState = "HandshakeComplete"

\* C16: what send(data, op) writes, fed back as the incoming stream, makes
\* recv() return exactly (op, data), for every op of 0..4, every payload drawn
\* and every split of the bytes into partial reads; the reads take the whole
\* frame and nothing else.
C16_FramingRoundTrips ==
    /\ fpc # "raised"
    /\ sent # <<>> =>
          /\ Len(sent) = 2
          /\ Len(sent[1]) = HeaderSize
          /\ FromLE32(SubSeq(sent[1], 1, 4)) = msg.op
          /\ FromLE32(SubSeq(sent[1], 5, 8)) = Len(sent[2])
    /\ fpc = "done" =>
          /\ out = [op |-> msg.op, data |-> msg.data]
          /\ stream = <<>>

\* a PONG frame whose payload is longer than 255 bytes came back whole
\* through partial reads
C16_Witness ==
    /\ fpc = "done"
    /\ partial
    /\ msg.op = OP_PONG
    /\ header.length > 255
    /\ out = [op |-> msg.op, data |-> msg.data]

====
